---- MODULE Spec2Model ----
(***************************************************************************)
(* Model of the car cost estimator of the Minerva tools application:       *)
(*   tools/services.py  _safe_decimal, fetch_currency_for_country,         *)
(*                      _calculate_finance_schedule, estimate_car_cost     *)
(*   tools/forms.py     CarCostEstimationForm.clean                        *)
(*   tools/views.py     CarCostEstimatorView.form_valid                    *)
(*                                                                         *)
(* A decimal.Decimal is modelled as a record [c, s] with integer           *)
(* coefficient c and scale s (number of fraction digits): its value is     *)
(* c / 10^s.  Sums, differences and products are exact, as they are in     *)
(* Python while the coefficient has at most Prec digits.  A quotient that  *)
(* is not exact is rounded to Prec significant digits (ROUND_HALF_EVEN,    *)
(* the default context); such quotients are kept as sequences of decimal   *)
(* digits because their coefficients do not fit a machine integer.         *)
(***************************************************************************)
EXTENDS Integers, Sequences, FiniteSets, TLC

VARIABLES
    pc,         \* idle, then dispatched / valid / invalid / rendered (a request) or estimated / scheduled (a call)
    cleaned,    \* form.cleaned_data of the submitted form
    errors,     \* form errors: the fields clean() called add_error on
    suggested,  \* self.suggested_data of the view
    data,       \* the mapping handed to estimate_car_cost
    results,    \* what estimate_car_cost returned (or the exception it raised)
    messages,   \* the messages.info notices of the request
    loan,       \* arguments of a direct call of _calculate_finance_schedule
    schedule,   \* what _calculate_finance_schedule returned
    cache,      \* the lru_cache of fetch_currency_for_country, least recently used entry first
    requests,   \* per country code, the requests.get calls made for it so far
    recency,    \* history: every key looked up so far, least recently looked up first
    call        \* the last call of fetch_currency_for_country and how it was answered

formVars == <<pc, cleaned, errors, suggested, data, results, messages, loan, schedule>>

memoVars == <<cache, requests, recency, call>>

vars == <<pc, cleaned, errors, suggested, data, results, messages, loan, schedule,
          cache, requests, recency, call>>

----------------------------------------------------------------------------
(* Bounds of the model *)

MaxYears == 2       \* ownership periods 0 .. MaxYears
MaxTerm == 3        \* loan and lease terms 0 .. MaxTerm (and 12, at 0% APR)
NumCodes == 65      \* country codes besides "" and "US" that callers look up

----------------------------------------------------------------------------
(* decimal.Decimal *)

\* precision of the default decimal context (decimal.getcontext().prec)
Prec == 28

None == [none |-> TRUE]

Dec(c, s) == [c |-> c, s |-> s]

Zero == Dec(0, 0)

RECURSIVE Pow10(_)
Pow10(n) == IF n <= 0 THEN 1 ELSE 10 * Pow10(n - 1)

RECURSIVE Power(_, _)
Power(b, n) == IF n <= 0 THEN 1 ELSE b * Power(b, n - 1)

Abs(n) == IF n < 0 THEN -n ELSE n

Sign(n) == IF n < 0 THEN -1 ELSE 1

MaxOf(a, b) == IF a >= b THEN a ELSE b

\* coefficient of x at scale s (s >= x.s)
AtScale(x, s) == x.c * Pow10(s - x.s)

DAdd(x, y) ==
    LET s == MaxOf(x.s, y.s) IN Dec(AtScale(x, s) + AtScale(y, s), s)

DSub(x, y) ==
    LET s == MaxOf(x.s, y.s) IN Dec(AtScale(x, s) - AtScale(y, s), s)

DMul(x, y) == Dec(x.c * y.c, x.s + y.s)

DLeq(x, y) ==
    LET s == MaxOf(x.s, y.s) IN AtScale(x, s) <= AtScale(y, s)

\* Decimal <= Decimal compares values, not representations
\* (DLeq); max(x, y) of Python is the first argument unless the second is larger
DMax(x, y) == IF DLeq(y, x) THEN x ELSE y

\* bool(Decimal)
Truthy(x) == x # None /\ x.c # 0

\* x / Decimal("100"): exact, two more fraction digits
DivHundred(x) == Dec(x.c, x.s + 2)

\* x.quantize(Decimal("0.01"), rounding=mode)
Quantize(x, mode) ==
    IF x.s <= 2 THEN Dec(AtScale(x, 2), 2)
    ELSE LET k == Pow10(x.s - 2)
             q == Abs(x.c) \div k
             r == Abs(x.c) % k
             up == IF mode = "ROUND_HALF_UP"
                   THEN 2 * r >= k
                   ELSE 2 * r > k \/ (2 * r = k /\ q % 2 = 1)
         IN Dec(Sign(x.c) * (IF up THEN q + 1 ELSE q), 2)

----------------------------------------------------------------------------
(* Quotients at the precision of the decimal context.  A rounded quotient  *)
(* is [d, s]: the sequence d of its significant digits and its scale s,    *)
(* value d / 10^s.  All operands here are non-negative; the caller keeps   *)
(* the sign.                                                               *)

RECURSIVE Digits(_)
Digits(n) == IF n <= 0 THEN <<>> ELSE Append(Digits(n \div 10), n % 10)

RECURSIVE ToInt(_)
ToInt(ds) ==
    IF ds = <<>> THEN 0
    ELSE 10 * ToInt(SubSeq(ds, 1, Len(ds) - 1)) + ds[Len(ds)]

\* ds * m + carry, digit by digit from the right
RECURSIVE MulCarry(_, _, _)
MulCarry(ds, m, carry) ==
    IF ds = <<>> THEN Digits(carry)
    ELSE LET v == ds[Len(ds)] * m + carry
         IN Append(MulCarry(SubSeq(ds, 1, Len(ds) - 1), m, v \div 10), v % 10)

MulDigits(ds, m) == IF m = 0 THEN <<>> ELSE MulCarry(ds, m, 0)

IncDigits(ds) == MulCarry(ds, 1, 1)

\* integer part of ds / den: quotient digits q and remainder r
RECURSIVE LongDiv(_, _, _, _)
LongDiv(ds, den, q, r) ==
    IF ds = <<>> THEN [q |-> q, r |-> r]
    ELSE LET cur == r * 10 + Head(ds)
             d == cur \div den
         IN LongDiv(Tail(ds), den,
                    IF q = <<>> /\ d = 0 THEN <<>> ELSE Append(q, d),
                    cur % den)

\* fraction digits, until the quotient is exact or has Prec significant digits
RECURSIVE FracExpand(_, _, _, _)
FracExpand(q, r, den, s) ==
    IF r = 0 \/ Len(q) >= Prec THEN [q |-> q, r |-> r, s |-> s]
    ELSE LET d == (r * 10) \div den
         IN FracExpand(IF q = <<>> /\ d = 0 THEN <<>> ELSE Append(q, d),
                       (r * 10) % den, den, s + 1)

\* the quotient digits f of remainder f.r, rounded half-even
RoundQuotient(f, den) ==
    IF \/ 2 * f.r > den
       \/ 2 * f.r = den /\ f.q # <<>> /\ f.q[Len(f.q)] % 2 = 1
    THEN [d |-> IncDigits(f.q), s |-> f.s]
    ELSE [d |-> f.q, s |-> f.s]

\* the digits after the integer part i of a quotient
Expand(i, den) == FracExpand(i.q, i.r, den, 0)

\* Decimal division num / den (den > 0), rounded half-even to Prec digits
DivPrec(num, den) ==
    RoundQuotient(Expand(LongDiv(num, den, <<>>, 0), den), den)

\* the context rounding of an exact result to Prec significant digits
RoundPrec(x) ==
    IF Len(x.d) <= Prec THEN x
    ELSE LET k == Len(x.d) - Prec
             kept == SubSeq(x.d, 1, Prec)
             first == x.d[Prec + 1]
             rest == \E i \in (Prec + 2)..Len(x.d) : x.d[i] # 0
             up == \/ first > 5
                   \/ first = 5 /\ (rest \/ kept[Prec] % 2 = 1)
         IN [d |-> IF up THEN IncDigits(kept) ELSE kept, s |-> x.s - k]

\* Decimal * int at the context precision
MulPrec(x, n) == RoundPrec([d |-> MulDigits(x.d, n), s |-> x.s])

\* x.quantize(Decimal("0.01"), rounding=ROUND_HALF_UP) of a rounded quotient
QuantizePrec(x, sign) ==
    IF x.s <= 2 THEN Dec(sign * ToInt(x.d) * Pow10(2 - x.s), 2)
    ELSE LET k == x.s - 2
             n == Len(x.d)
             kept == IF n > k THEN ToInt(SubSeq(x.d, 1, n - k)) ELSE 0
             first == IF n >= k THEN x.d[n - k + 1] ELSE 0
         IN Dec(sign * (IF first >= 5 THEN kept + 1 ELSE kept), 2)

RECURSIVE GCD(_, _)
GCD(a, b) == IF b = 0 THEN a ELSE GCD(b, a % b)

----------------------------------------------------------------------------
(* services.py *)

\* _safe_decimal: None, "" and 0 become Decimal("0")
_safe_decimal(value) ==
    IF value = None \/ value.c = 0 THEN Zero ELSE value

\* @lru_cache(maxsize=64)
maxsize == 64

\* the country codes callers pass: none, the default of the view, and others
OtherCode(i) == "C" \o ToString(i)

Codes == {"", "US"} \cup {OtherCode(i) : i \in 1..NumCodes}

\* the body of fetch_currency_for_country: no request for an empty code;
\* else the first currency of the answer, or None ("None") when the request
\* fails or the answer names no currency, as it does for an unknown code
Responses(country_code) ==
    IF country_code = "US" THEN {"None", "USD"} ELSE {"None"}

Requested(country_code) == country_code # ""

\* the keys the cache holds
MemoKeys(m) == {m[i].key : i \in DOMAIN m}

\* a hit moves the entry to the most recently used end
Touch(m, key) ==
    SelectSeq(m, LAMBDA e : e.key # key) \o SelectSeq(m, LAMBDA e : e.key = key)

\* a miss stores the result
StoreUnbounded(m, key, value) == m \o <<[key |-> key, value |-> value]>>

\* a miss stores the result, in place of the least recently used entry
\* once the cache holds maxsize entries
Store(m, key, value) ==
    (IF Len(m) >= maxsize THEN Tail(m) ELSE m) \o <<[key |-> key, value |-> value]>>

\* the cache after a call with this key whose body, if it runs, returns value
CacheAfter(m, key, value) ==
    IF key \in MemoKeys(m) THEN Touch(m, key) ELSE Store(m, key, value)

\* the requests made once that call has returned
RequestsAfter(m, made, key) ==
    IF key \notin MemoKeys(m) /\ Requested(key)
    THEN [made EXCEPT ![key] = @ + 1] ELSE made

\* monthly_rate = (interest_rate_percent / 100) / 12 as the fraction a/b in
\* lowest terms.  The rates of the model are those whose monthly rate is a
\* finite decimal, so that the quotient is exact as it is in the code.
MonthlyRate(interest_rate_percent) ==
    LET n == interest_rate_percent.c
        m == 1200 * Pow10(interest_rate_percent.s)
        g == GCD(n, m)
    IN [a |-> n \div g, b |-> m \div g]

\* an exception leaving the function
Raised(exception) == [raised |-> exception]

\* Decimal / Decimal: decimal.DivisionByZero on a zero divisor
Divide(num, den) ==
    IF den = 0 THEN Raised("DivisionByZero") ELSE DivPrec(num, den)

\* the monthly payment before the final rounding: principal / term_months at
\* 0% and otherwise principal * (rate * factor) / (factor - 1), where
\* factor = (1 + rate) ** term_months.  p is the principal in cents.  The
\* terms of the quotient are exact; only the division rounds.
MonthlyPayment(p, rate, term_months) ==
    IF rate.a = 0
    THEN Divide(Digits(p), 100 * term_months)
    ELSE LET factor == Power(rate.b + rate.a, term_months)
             one == Power(rate.b, term_months)
         IN Divide(MulDigits(MulDigits(Digits(p), rate.a), factor),
                   100 * rate.b * (factor - one))

\* total_paid but from the payment as it is returned, rounded to cents
TotalPaidOfRounded(monthly_payment, term_months) ==
    MulPrec([d |-> Digits(QuantizePrec(monthly_payment, 1).c), s |-> 2],
            term_months)

\* total_paid = monthly_payment * term_months, before the final rounding
TotalPaid(monthly_payment, term_months) == MulPrec(monthly_payment, term_months)

\* the returned schedule: both values quantized, ROUND_HALF_UP
ScheduleOf(monthly_payment, term_months) ==
    IF monthly_payment = Raised("DivisionByZero") THEN monthly_payment
    ELSE [raised |-> "none",
          monthly_payment |-> QuantizePrec(monthly_payment, 1),
          total_paid |-> QuantizePrec(TotalPaid(monthly_payment, term_months), 1)]

\* the schedule of a principal p already quantized
ScheduleOfQuantized(p, interest_rate_percent, term_months) ==
    IF term_months <= 0 \/ p.c <= 0
    THEN [raised |-> "none", monthly_payment |-> Zero, total_paid |-> Zero]
    ELSE ScheduleOf(MonthlyPayment(p.c, MonthlyRate(interest_rate_percent),
                                   term_months),
                    term_months)

_calculate_finance_schedule(principal, interest_rate_percent, term_months) ==
    ScheduleOfQuantized(Quantize(principal, "ROUND_HALF_EVEN"),
                        interest_rate_percent, term_months)

\* taxable_base without the max
TaxableBaseUnclamped(purchase_price, incentives) ==
    DSub(purchase_price, incentives)

\* taxable_base = max(purchase_price - incentives, Decimal("0"))
TaxableBase(purchase_price, incentives) ==
    DMax(DSub(purchase_price, incentives), Zero)

\* tax_amount = (taxable_base * tax_rate).quantize(0.01, ROUND_HALF_UP)
TaxAmount(taxable_base, tax_rate) ==
    Quantize(DMul(taxable_base, tax_rate), "ROUND_HALF_UP")

\* the cash branch and the final else branch
AcquisitionCash(taxable_base, tax_amount) ==
    [raised |-> "none",
     acquisition_total |-> DAdd(taxable_base, tax_amount),
     acquisition_breakdown |-> ("Upfront payment" :> DAdd(taxable_base, tax_amount))]

\* principal without the max
FinancePrincipalUnclamped(taxable_base, down_payment) ==
    DSub(taxable_base, down_payment)

\* principal = max(taxable_base - down_payment, Decimal("0"))
FinancePrincipal(taxable_base, down_payment) ==
    DMax(DSub(taxable_base, down_payment), Zero)

\* acquisition_total = schedule["total_paid"]
FinanceTotalLoanOnly(total_paid, down_payment) == total_paid

\* acquisition_total = schedule["total_paid"] + down_payment
FinanceTotal(total_paid, down_payment) == DAdd(total_paid, down_payment)

\* the finance branch once the schedule is there
FinanceOf(sched, down_payment, tax_amount) ==
    IF sched.raised # "none" THEN sched
    ELSE [raised |-> "none",
          acquisition_total |-> FinanceTotal(sched.total_paid, down_payment),
          acquisition_breakdown |->
              ("Down payment" :> down_payment)
              @@ ("Financed total" :> sched.total_paid)
              @@ ("Taxes" :> tax_amount)]

\* the finance branch; int(None) raises TypeError
AcquisitionFinance(d, taxable_base, tax_amount) ==
    IF d.finance_term_months = None THEN Raised("TypeError")
    ELSE FinanceOf(
             _calculate_finance_schedule(
                 DAdd(FinancePrincipal(taxable_base,
                                       _safe_decimal(d.finance_down_payment)),
                      tax_amount),
                 _safe_decimal(d.finance_interest_rate),
                 d.finance_term_months.c),
             _safe_decimal(d.finance_down_payment),
             tax_amount)

\* lease_total without the drive-off cost
LeaseTotalNoDriveOff(lease_payment, lease_term, drive_off) ==
    DMul(lease_payment, Dec(lease_term, 0))

\* lease_total = lease_payment * lease_term + drive_off
LeaseTotal(lease_payment, lease_term, drive_off) ==
    DAdd(DMul(lease_payment, Dec(lease_term, 0)), drive_off)

\* the lease branch once lease_total and tax_on_lease are there
LeaseOf(lease_payment, lease_term, drive_off, lease_total, tax_on_lease) ==
    [raised |-> "none",
     acquisition_total |-> DAdd(lease_total, tax_on_lease),
     acquisition_breakdown |->
         ("Lease payments" :> DMul(lease_payment, Dec(lease_term, 0)))
         @@ ("Drive-off" :> drive_off)
         @@ ("Lease taxes" :> tax_on_lease)]

\* tax_on_lease = (lease_total * tax_rate).quantize(0.01, ROUND_HALF_UP)
LeaseTaxed(lease_payment, lease_term, drive_off, lease_total, tax_rate) ==
    LeaseOf(lease_payment, lease_term, drive_off, lease_total,
            Quantize(DMul(lease_total, tax_rate), "ROUND_HALF_UP"))

\* the lease branch; int(None) raises TypeError
AcquisitionLease(d, tax_rate) ==
    IF d.lease_term_months = None THEN Raised("TypeError")
    ELSE LeaseTaxed(_safe_decimal(d.lease_monthly_payment),
                    d.lease_term_months.c,
                    _safe_decimal(d.lease_drive_off_cost),
                    LeaseTotal(_safe_decimal(d.lease_monthly_payment),
                               d.lease_term_months.c,
                               _safe_decimal(d.lease_drive_off_cost)),
                    tax_rate)

\* the branch on purchase_type
Acquisition(d, taxable_base, tax_amount, tax_rate) ==
    IF d.purchase_type = "cash" THEN AcquisitionCash(taxable_base, tax_amount)
    ELSE IF d.purchase_type = "finance"
    THEN AcquisitionFinance(d, taxable_base, tax_amount)
    ELSE IF d.purchase_type = "lease" THEN AcquisitionLease(d, tax_rate)
    ELSE AcquisitionCash(taxable_base, tax_amount)

\* the annual energy cost with the consumption taken per km, not per 100 km
AnnualEnergyCostPerKm(annual_mileage, consumption, price) ==
    IF Truthy(consumption) /\ Truthy(price)
    THEN Quantize(DMul(DMul(annual_mileage, consumption), price), "ROUND_HALF_UP")
    ELSE Zero

\* annual_fuel_cost and annual_electric_cost: Decimal("0") unless both the
\* consumption and the price are non-zero
AnnualEnergyCost(annual_mileage, consumption, price) ==
    IF Truthy(consumption) /\ Truthy(price)
    THEN Quantize(DMul(DMul(DivHundred(annual_mileage), consumption), price),
                  "ROUND_HALF_UP")
    ELSE Zero

\* annual_recurring_total, the sum of the energy costs and the annual costs
AnnualRecurringTotal(d, annual_fuel_cost, annual_electric_cost) ==
    DAdd(DAdd(DAdd(DAdd(DAdd(DAdd(annual_fuel_cost, annual_electric_cost),
        _safe_decimal(d.insurance_cost_annual)),
        _safe_decimal(d.maintenance_cost_annual)),
        _safe_decimal(d.registration_fees_annual)),
        _safe_decimal(d.parking_cost_annual)),
        _safe_decimal(d.other_recurring_costs))

\* recurring_total of one year, whatever the ownership period
RecurringTotalOneYear(annual_recurring_total, ownership_years) ==
    Quantize(annual_recurring_total, "ROUND_HALF_UP")

\* recurring_total = (annual_recurring_total * ownership_years).quantize(..)
RecurringTotal(annual_recurring_total, ownership_years) ==
    Quantize(DMul(annual_recurring_total, ownership_years), "ROUND_HALF_UP")

\* total_cost never below zero
TotalCostFloored(acquisition_total, recurring_total, charging_installation, residual_value) ==
    Quantize(DMax(DSub(DAdd(DAdd(acquisition_total, recurring_total),
                            charging_installation), residual_value), Zero),
             "ROUND_HALF_UP")

\* total_cost, quantized
TotalCost(acquisition_total, recurring_total, charging_installation, residual_value) ==
    Quantize(DSub(DAdd(DAdd(acquisition_total, recurring_total),
                       charging_installation), residual_value),
             "ROUND_HALF_UP")

\* the quotient q quantized, unless the division raised
QuantizeQuotient(q, sign) ==
    IF q = Raised("DivisionByZero") THEN q ELSE QuantizePrec(q, sign)

\* monthly_cost without the "if ownership_years" guard
MonthlyCostUnguarded(total_cost, ownership_years) ==
    QuantizeQuotient(Divide(Digits(Abs(total_cost.c)),
                            Pow10(total_cost.s) * ownership_years.c * 12),
                     Sign(total_cost.c))

\* monthly_cost = (total_cost / (ownership_years * 12)).quantize(..)
\*                if ownership_years else Decimal("0.00")
MonthlyCost(total_cost, ownership_years) ==
    IF Truthy(ownership_years)
    THEN QuantizeQuotient(Divide(Digits(Abs(total_cost.c)),
                                 Pow10(total_cost.s) * ownership_years.c * 12),
                          Sign(total_cost.c))
    ELSE Dec(0, 2)

\* (annual * ownership_years).quantize(..) of the breakdown
OverYears(annual, ownership_years) ==
    Quantize(DMul(_safe_decimal(annual), ownership_years), "ROUND_HALF_UP")

\* the breakdown of the result
BreakdownEnergyOverYears(d, acquisition_total, annual_fuel_cost, annual_electric_cost) ==
    ("Acquisition" :> Quantize(acquisition_total, "ROUND_HALF_UP"))
    @@ ("Energy" :> OverYears(DAdd(annual_fuel_cost, annual_electric_cost),
                              d.ownership_period_years))
    @@ ("Insurance" :> OverYears(d.insurance_cost_annual, d.ownership_period_years))
    @@ ("Maintenance" :> OverYears(d.maintenance_cost_annual, d.ownership_period_years))
    @@ ("Registration" :> OverYears(d.registration_fees_annual, d.ownership_period_years))
    @@ ("Parking" :> OverYears(d.parking_cost_annual, d.ownership_period_years))
    @@ ("Other recurring" :> OverYears(d.other_recurring_costs, d.ownership_period_years))
    @@ ("Charging infrastructure" :>
            Quantize(_safe_decimal(d.charging_installation_cost), "ROUND_HALF_UP"))
    @@ ("Residual credit" :>
            Quantize(_safe_decimal(d.residual_value), "ROUND_HALF_UP"))

\* the breakdown of the result
Breakdown(d, acquisition_total, annual_fuel_cost, annual_electric_cost) ==
    ("Acquisition" :> Quantize(acquisition_total, "ROUND_HALF_UP"))
    @@ ("Energy" :> Quantize(DAdd(annual_fuel_cost, annual_electric_cost),
                             "ROUND_HALF_UP"))
    @@ ("Insurance" :> OverYears(d.insurance_cost_annual, d.ownership_period_years))
    @@ ("Maintenance" :> OverYears(d.maintenance_cost_annual, d.ownership_period_years))
    @@ ("Registration" :> OverYears(d.registration_fees_annual, d.ownership_period_years))
    @@ ("Parking" :> OverYears(d.parking_cost_annual, d.ownership_period_years))
    @@ ("Other recurring" :> OverYears(d.other_recurring_costs, d.ownership_period_years))
    @@ ("Charging infrastructure" :>
            Quantize(_safe_decimal(d.charging_installation_cost), "ROUND_HALF_UP"))
    @@ ("Residual credit" :>
            Quantize(_safe_decimal(d.residual_value), "ROUND_HALF_UP"))

\* the returned mapping, unless the division of monthly_cost raised
ResultOf(d, acq, annual_fuel_cost, annual_electric_cost, annual_recurring_total, total_cost, monthly_cost) ==
    IF monthly_cost = Raised("DivisionByZero") THEN monthly_cost
    ELSE [raised |-> "none",
          total_cost |-> total_cost,
          monthly_cost |-> monthly_cost,
          annual_recurring_total |->
              Quantize(annual_recurring_total, "ROUND_HALF_UP"),
          breakdown |-> Breakdown(d, acq.acquisition_total,
                                  annual_fuel_cost, annual_electric_cost),
          annual_fuel_cost |-> annual_fuel_cost,
          annual_electric_cost |-> annual_electric_cost,
          acquisition_breakdown |-> acq.acquisition_breakdown]

\* total_cost and monthly_cost
Rollup(d, acq, annual_fuel_cost, annual_electric_cost, annual_recurring_total, total_cost) ==
    ResultOf(d, acq, annual_fuel_cost, annual_electric_cost,
             annual_recurring_total, total_cost,
             MonthlyCost(total_cost, d.ownership_period_years))

\* the recurring costs over the ownership period
Recurring(d, acq, annual_fuel_cost, annual_electric_cost, annual_recurring_total) ==
    Rollup(d, acq, annual_fuel_cost, annual_electric_cost, annual_recurring_total,
           TotalCost(acq.acquisition_total,
                     RecurringTotal(annual_recurring_total, d.ownership_period_years),
                     _safe_decimal(d.charging_installation_cost),
                     _safe_decimal(d.residual_value)))

\* the energy costs of a year
Energy(d, acq, annual_fuel_cost, annual_electric_cost) ==
    Recurring(d, acq, annual_fuel_cost, annual_electric_cost,
              AnnualRecurringTotal(d, annual_fuel_cost, annual_electric_cost))

\* estimate_car_cost after the branch on purchase_type;
\* Decimal(str(None)) raises InvalidOperation
AfterAcquisition(d, acq) ==
    IF acq.raised # "none" THEN acq
    ELSE IF d.annual_mileage = None THEN Raised("InvalidOperation")
    ELSE Energy(d, acq,
                AnnualEnergyCost(d.annual_mileage,
                                 _safe_decimal(d.fuel_consumption_per_100km),
                                 _safe_decimal(d.gas_price_per_liter)),
                AnnualEnergyCost(d.annual_mileage,
                                 _safe_decimal(d.electricity_consumption_per_100km),
                                 _safe_decimal(d.electricity_price_per_kwh)))

\* estimate_car_cost once taxable_base and tax_rate are there
AfterTax(d, taxable_base, tax_rate) ==
    AfterAcquisition(d, Acquisition(d, taxable_base,
                                    TaxAmount(taxable_base, tax_rate), tax_rate))

estimate_car_cost(d) ==
    IF d.ownership_period_years = None THEN Raised("InvalidOperation")
    ELSE AfterTax(d,
                  TaxableBase(_safe_decimal(d.car_purchase_price),
                              _safe_decimal(d.incentives_rebates)),
                  DivHundred(_safe_decimal(d.local_tax_rate)))

----------------------------------------------------------------------------
(* forms.py *)

\* str.upper() on the codes of the model
Upper(code) ==
    IF code = "us" THEN "US" ELSE IF code = "usd" THEN "USD" ELSE code

\* "if not cleaned.get(field)": the field is None, missing, or zero
Missing(value) == ~Truthy(value)

\* the fields CarCostEstimationForm.clean calls add_error on
CleanErrors(c) ==
    (IF c.purchase_type = "finance"
     THEN {f \in {"finance_interest_rate", "finance_term_months"} : Missing(c[f])}
     ELSE IF c.purchase_type = "lease"
     THEN {f \in {"lease_term_months", "lease_monthly_payment"} : Missing(c[f])}
     ELSE {})
    \cup (IF /\ c.fuel_type \in {"gasoline", "diesel", "hybrid"}
             /\ Missing(c.fuel_consumption_per_100km)
          THEN {"fuel_consumption_per_100km"} ELSE {})
    \cup (IF /\ c.fuel_type \in {"electric", "hybrid"}
             /\ Missing(c.electricity_consumption_per_100km)
          THEN {"electricity_consumption_per_100km"} ELSE {})

\* the cleaned data CarCostEstimationForm.clean returns
CleanData(c) ==
    [c EXCEPT !.country_code = Upper(@), !.currency_code = Upper(@)]

----------------------------------------------------------------------------
(* views.py *)

\* "if not cleaned.get(f) and self.suggested_data.g: cleaned[f] = ...g"
Substitute(value, suggestion) ==
    IF Missing(value) /\ Truthy(suggestion) THEN suggestion ELSE value

\* the data form_valid hands to estimate_car_cost
FormValidData(c, sd) ==
    [c EXCEPT
        !.gas_price_per_liter = Substitute(@, sd.fuel_price_per_liter),
        !.electricity_price_per_kwh = Substitute(@, sd.electricity_price_per_kwh),
        !.local_tax_rate = Substitute(@, sd.tax_rate_percent)]

\* the notices form_valid adds, in order
FormValidMessages(c, sd) ==
    (IF Missing(c.gas_price_per_liter) /\ Truthy(sd.fuel_price_per_liter)
     THEN <<"Applied suggested local fuel price from available data.">>
     ELSE <<>>)
    \o (IF Missing(c.electricity_price_per_kwh) /\ Truthy(sd.electricity_price_per_kwh)
        THEN <<"Applied suggested local electricity price from available data.">>
        ELSE <<>>)
    \o (IF Missing(c.local_tax_rate) /\ Truthy(sd.tax_rate_percent)
        THEN <<"Applied suggested local tax rate from available data.">>
        ELSE <<>>)

----------------------------------------------------------------------------
(* Inputs of the model *)

\* a cash purchase with nothing optional filled in
BaseData ==
    [country_code |-> "US", region |-> None, currency_code |-> "USD",
     ownership_period_years |-> Dec(1, 0),
     car_purchase_price |-> Dec(20000, 0),
     purchase_type |-> "cash",
     incentives_rebates |-> None,
     local_tax_rate |-> Dec(10, 0),
     registration_fees_annual |-> None,
     insurance_cost_annual |-> None,
     maintenance_cost_annual |-> None,
     parking_cost_annual |-> None,
     other_recurring_costs |-> None,
     annual_mileage |-> Dec(0, 0),
     fuel_type |-> "gasoline",
     fuel_consumption_per_100km |-> None,
     electricity_consumption_per_100km |-> None,
     gas_price_per_liter |-> None,
     electricity_price_per_kwh |-> None,
     finance_down_payment |-> None,
     finance_interest_rate |-> None,
     finance_term_months |-> None,
     lease_term_months |-> None,
     lease_monthly_payment |-> None,
     lease_drive_off_cost |-> None,
     residual_value |-> None,
     charging_installation_cost |-> None]

Years == {Dec(y, 0) : y \in 0..MaxYears}

Terms == {Dec(t, 0) : t \in 0..MaxTerm}

\* APRs whose monthly rate is a finite decimal
Rates == {Zero, Dec(60, 0), Dec(120000, 3)}

TaxRates == {Zero, Dec(10, 0), Dec(75, 1)}

\* annual costs, the charger and the energy use: nothing, or a little of each
Upkeep(d, full) ==
    IF ~full THEN d
    ELSE [d EXCEPT !.insurance_cost_annual = Dec(33333, 2),
                   !.maintenance_cost_annual = Dec(250, 0),
                   !.registration_fees_annual = Dec(0, 2),
                   !.parking_cost_annual = Dec(5, 2),
                   !.other_recurring_costs = Dec(1999, 2),
                   !.charging_installation_cost = Dec(120050, 2),
                   !.annual_mileage = Dec(150, 0),
                   !.fuel_type = "hybrid",
                   !.fuel_consumption_per_100km = Dec(650, 2),
                   !.gas_price_per_liter = Dec(1459, 3),
                   !.electricity_consumption_per_100km = Dec(1500, 2),
                   !.electricity_price_per_kwh = Dec(1234, 4)]

\* what a purchase type adds
CashInputs == {[BaseData EXCEPT !.purchase_type = t] : t \in {"cash", "barter"}}

FinanceInputs ==
    {[BaseData EXCEPT !.purchase_type = "finance",
                      !.finance_down_payment = dp,
                      !.finance_interest_rate = r,
                      !.finance_term_months = t] :
        dp \in {None, Dec(3, 2), Dec(25000, 0)},
        r \in Rates \cup {None},
        t \in Terms \cup {None}}

LeaseInputs ==
    {[BaseData EXCEPT !.purchase_type = "lease",
                      !.lease_term_months = t,
                      !.lease_monthly_payment = mp,
                      !.lease_drive_off_cost = off] :
        t \in Terms \cup {None, Dec(36, 0)},
        mp \in {None, Dec(300, 0), Dec(29999, 2)},
        off \in {None, Dec(1000, 0)}}

AcquisitionInputs ==
    {Upkeep([d EXCEPT !.ownership_period_years = y,
                      !.car_purchase_price = price,
                      !.incentives_rebates = inc,
                      !.local_tax_rate = tax,
                      !.residual_value = res], full) :
        d \in CashInputs \cup FinanceInputs \cup LeaseInputs,
        y \in Years,
        price \in {None, Dec(5, 2), Dec(20000, 0)},
        inc \in {None, Zero, Dec(1000, 0)},
        tax \in TaxRates,
        res \in {None, Dec(50000, 2), Dec(30000, 0)},
        full \in BOOLEAN}

EnergyInputs ==
    {[BaseData EXCEPT !.ownership_period_years = y,
                      !.annual_mileage = km,
                      !.fuel_type = ft,
                      !.fuel_consumption_per_100km = fc,
                      !.gas_price_per_liter = gp,
                      !.electricity_consumption_per_100km = ec,
                      !.electricity_price_per_kwh = ep] :
        y \in Years,
        km \in {Dec(0, 0), Dec(150, 0)},
        ft \in {"gasoline", "diesel", "electric", "hybrid"},
        fc \in {None, Dec(0, 2), Dec(650, 2)},
        gp \in {None, Zero, Dec(1459, 3)},
        ec \in {None, Zero, Dec(1500, 2)},
        ep \in {None, Dec(0, 4), Dec(1234, 4)}}

\* the mappings estimate_car_cost is called with
EngineInputs == AcquisitionInputs \cup EnergyInputs

\* the arguments _calculate_finance_schedule is called with
LoanInputs ==
    {[principal |-> p, interest_rate_percent |-> r, term_months |-> t] :
        p \in {Zero, Dec(1, 2), Dec(5, 2), Dec(12345, 2), Dec(100, 0), Dec(10000, 0)},
        r \in Rates,
        t \in 0..MaxTerm}
    \cup
    {[principal |-> p, interest_rate_percent |-> Zero, term_months |-> t] :
        p \in {Dec(1, 2), Dec(12345, 2), Dec(10000, 0)},
        t \in {7, 12}}

\* what gather_suggested_data can return ("None": no currency was found)
SuggestedInputs ==
    [currency_code : {"None", "USD"},
     fuel_price_per_liter : {None, Dec(950, 3)},
     electricity_price_per_kwh : {None, Dec(1611, 4)},
     tax_rate_percent : {None, Dec(75, 1)}]

\* submitted forms whose fields pass the validators of their fields
FormBase ==
    [BaseData EXCEPT !.ownership_period_years = Dec(2, 0),
                     !.insurance_cost_annual = Dec(33333, 2),
                     !.maintenance_cost_annual = Dec(250, 0),
                     !.annual_mileage = Dec(150, 0),
                     !.fuel_consumption_per_100km = Dec(650, 2)]

AcquisitionForms ==
    {[FormBase EXCEPT !.country_code = cc,
                      !.currency_code = cur,
                      !.purchase_type = pt,
                      !.finance_interest_rate = r,
                      !.finance_term_months = ft,
                      !.lease_term_months = lt,
                      !.lease_monthly_payment = mp] :
        cc \in {"us", "US"},
        cur \in {"usd"},
        pt \in {"cash", "finance", "lease"},
        r \in {None, Zero, Dec(60, 0)},
        ft \in {None, Dec(2, 0)},
        lt \in {None, Dec(2, 0)},
        mp \in {None, Dec(0, 2), Dec(300, 0)}}

EnergyForms ==
    {[FormBase EXCEPT !.fuel_type = ft,
                      !.fuel_consumption_per_100km = fc,
                      !.electricity_consumption_per_100km = ec,
                      !.gas_price_per_liter = gp,
                      !.electricity_price_per_kwh = ep,
                      !.local_tax_rate = tax] :
        ft \in {"gasoline", "electric", "hybrid"},
        fc \in {None, Dec(650, 2)},
        ec \in {None, Dec(1500, 2)},
        gp \in {None, Dec(0, 3), Dec(1459, 3)},
        ep \in {None, Dec(0, 4), Dec(1234, 4)},
        tax \in {Dec(0, 3), Dec(10, 0)}}

FormInputs == AcquisitionForms \cup EnergyForms

----------------------------------------------------------------------------
(* The state machine *)

\* the keys looked up so far, in the order of their last lookup
Seen(keys) == {keys[i] : i \in DOMAIN keys}

\* the distinct other keys looked up since the last lookup of this one
OthersSince(keys, key) ==
    Len(keys) - (CHOOSE i \in DOMAIN keys : keys[i] = key)

RecencyAfter(keys, key) == SelectSeq(keys, LAMBDA k : k # key) \o <<key>>

\* a call fetch_currency_for_country(country_code) whose body, if it runs,
\* returns value
Lookup(country_code, value) ==
    /\ cache' = CacheAfter(cache, country_code, value)
    /\ requests' = RequestsAfter(cache, requests, country_code)
    /\ recency' = RecencyAfter(recency, country_code)
    /\ call' = [country_code |-> country_code,
                value |-> cache'[Len(cache')].value,
                requested |-> requests' # requests,
                before |-> country_code \in Seen(recency),
                others |-> IF country_code \in Seen(recency)
                           THEN OthersSince(recency, country_code) ELSE 0]

\* the other codes looked up so far
Others(keys) == Len(SelectSeq(keys, LAMBDA k : k \notin {"", "US"}))

\* the keys of the next call: the default of the view, a code that was not
\* looked up before, or no code before any other code
NextCodes ==
    {"US"} \cup {OtherCode(i) : i \in {Others(recency) + 1} \cap 1..NumCodes}
           \cup (IF Others(recency) = 0 THEN {""} ELSE {})

\* request.GET.get("country", "US")
Countries == {"", "US"}

Init ==
    /\ pc = "idle"
    /\ cleaned = None
    /\ errors = {}
    /\ suggested = None
    /\ data = None
    /\ results = None
    /\ messages = <<>>
    /\ loan = None
    /\ schedule = None
    /\ cache = <<>>
    /\ requests = [k \in Codes |-> 0]
    /\ recency = <<>>
    /\ call = None

\* CarCostEstimatorView.dispatch: the suggested data are gathered and the
\* submitted form is bound; its fields have been cleaned one by one
Dispatch ==
    /\ pc = "idle"
    /\ \E country \in Countries, sd \in SuggestedInputs, form \in FormInputs :
          /\ sd.currency_code \in Responses(country)
          /\ Lookup(country, sd.currency_code)
          /\ suggested' = [sd EXCEPT !.currency_code = call'.value]
          /\ cleaned' = form
    /\ pc' = "dispatched"
    /\ UNCHANGED <<errors, data, results, messages, loan, schedule>>

\* CarCostEstimationForm.clean
Clean ==
    /\ pc = "dispatched"
    /\ errors' = CleanErrors(cleaned)
    /\ cleaned' = CleanData(cleaned)
    /\ pc' = IF errors' = {} THEN "valid" ELSE "invalid"
    /\ UNCHANGED <<suggested, data, results, messages, loan, schedule>>
    /\ UNCHANGED memoVars

\* CarCostEstimatorView.form_valid, which runs for a form without errors
FormValid ==
    /\ pc = "valid"
    /\ data' = FormValidData(cleaned, suggested)
    /\ messages' = FormValidMessages(cleaned, suggested)
    /\ results' = estimate_car_cost(data')
    /\ pc' = "rendered"
    /\ UNCHANGED <<cleaned, errors, suggested, loan, schedule>>
    /\ UNCHANGED memoVars

\* a call of estimate_car_cost
Estimate ==
    /\ pc = "idle"
    /\ \E d \in EngineInputs :
          /\ data' = d
          /\ results' = estimate_car_cost(d)
    /\ pc' = "estimated"
    /\ UNCHANGED <<cleaned, errors, suggested, messages, loan, schedule>>
    /\ UNCHANGED memoVars

\* a call of _calculate_finance_schedule
Schedule ==
    /\ pc = "idle"
    /\ \E l \in LoanInputs :
          /\ loan' = l
          /\ schedule' = _calculate_finance_schedule(
                             l.principal, l.interest_rate_percent, l.term_months)
    /\ pc' = "scheduled"
    /\ UNCHANGED <<cleaned, errors, suggested, data, results, messages>>
    /\ UNCHANGED memoVars

Next == Dispatch \/ Clean \/ FormValid \/ Estimate \/ Schedule

Spec == Init /\ [][Next]_vars

\* a process that serves calls of fetch_currency_for_country, one after another
Fetch ==
    /\ \E country_code \in NextCodes :
          \E value \in Responses(country_code) : Lookup(country_code, value)
    /\ UNCHANGED formVars

NextMemo == Fetch

SpecMemo == Init /\ [][NextMemo]_vars

----------------------------------------------------------------------------
(* Arithmetic of the properties: amounts in cents, as integers *)

\* an amount of at most 2 fraction digits, in cents
Cents(x) == AtScale(x, 2)

\* an absent or zero amount counts as zero
CentsOf(value) == IF value = None THEN 0 ELSE Cents(value)

\* num / den (den > 0) rounded to the nearest integer, halves away from zero
HalfUp(num, den) == Sign(num) * ((2 * Abs(num) + den) \div (2 * den))

----------------------------------------------------------------------------
(* C1: the zero-rate loan *)

ZeroRateLoan ==
    /\ pc = "scheduled"
    /\ loan.interest_rate_percent.c = 0
    /\ loan.principal.c > 0
    /\ loan.term_months > 0

ExampleLoan ==
    [principal |-> Dec(10000, 0), interest_rate_percent |-> Zero, term_months |-> 12]

\* C1 as stated: for a zero-rate loan with principal > 0 and term > 0 the
\* monthly payment is principal / term rounded half-up to cents, and
\* total_paid is that rounded payment times the term; 10000 over 12 months
\* gives 833.33 and 9999.96.
C1_TotalIsRoundedPaymentTimesTerm ==
    ZeroRateLoan =>
        /\ schedule.monthly_payment
              = Dec(HalfUp(Cents(loan.principal), loan.term_months), 2)
        /\ schedule.total_paid
              = Dec(schedule.monthly_payment.c * loan.term_months, 2)
        /\ loan = ExampleLoan =>
              /\ schedule.monthly_payment = Dec(83333, 2)
              /\ schedule.total_paid = Dec(999996, 2)

\* C1 amended: for a zero-rate loan with principal > 0 and term > 0 the
\* monthly payment is principal / term rounded half-up to cents, and
\* total_paid is the unrounded quotient times the term, rounded half-up to
\* cents, which is the principal itself; 10000 over 12 months gives 833.33
\* and 10000.00.
C1_TotalIsUnroundedPaymentTimesTerm ==
    ZeroRateLoan =>
        /\ schedule.raised = "none"
        /\ schedule.monthly_payment
              = Dec(HalfUp(Cents(loan.principal), loan.term_months), 2)
        /\ schedule.total_paid = Dec(Cents(loan.principal), 2)
        /\ loan = ExampleLoan =>
              /\ schedule.monthly_payment = Dec(83333, 2)
              /\ schedule.total_paid = Dec(1000000, 2)

C1_Witness ==
    /\ ZeroRateLoan
    /\ loan = ExampleLoan
    /\ schedule.monthly_payment = Dec(83333, 2)
    /\ schedule.total_paid = Dec(1000000, 2)

----------------------------------------------------------------------------
(* C2: the suggested values in form_valid *)

\* the form fields a suggestion can replace, and the suggestion of each
SuggestionOf ==
    ("gas_price_per_liter" :> "fuel_price_per_liter")
    @@ ("electricity_price_per_kwh" :> "electricity_price_per_kwh")
    @@ ("local_tax_rate" :> "tax_rate_percent")

\* C2: form_valid passes a suggested value to estimate_car_cost in place of
\* the user's value only when the suggestion is present and the user's
\* input is absent; a value the user supplied, an explicit 0 included, is
\* passed unchanged.
C2_SuggestionOnlyForAbsentInput ==
    pc = "rendered" =>
        \A f \in DOMAIN SuggestionOf :
            /\ cleaned[f] # None => data[f] = cleaned[f]
            /\ data[f] # cleaned[f] =>
                  /\ suggested[SuggestionOf[f]] # None
                  /\ data[f] = suggested[SuggestionOf[f]]

----------------------------------------------------------------------------
(* C3: the conditional acquisition fields in clean() *)

\* the fields a purchase type requires
RequiredFor(purchase_type) ==
    IF purchase_type = "finance"
    THEN {"finance_interest_rate", "finance_term_months"}
    ELSE IF purchase_type = "lease"
    THEN {"lease_term_months", "lease_monthly_payment"}
    ELSE {}

\* C3: clean() reports an error on a conditional acquisition field exactly
\* when the purchase type requires the field and the field is absent; a
\* required field that is present, with a 0 for the rate or the payment
\* included, is accepted.
C3_ErrorIffRequiredAndAbsent ==
    pc \in {"valid", "invalid"} =>
        \A f \in RequiredFor("finance") \cup RequiredFor("lease") :
            f \in errors <=>
                (f \in RequiredFor(cleaned.purchase_type) /\ cleaned[f] = None)

----------------------------------------------------------------------------
(* C4: estimate_car_cost is total on its domain *)

\* the data-model invariants the engine relies on: the required integers
\* are there, and so is the term of a loan or a lease
InDomain(d) ==
    /\ d.ownership_period_years # None
    /\ d.annual_mileage # None
    /\ d.purchase_type = "finance" => d.finance_term_months # None
    /\ d.purchase_type = "lease" => d.lease_term_months # None

----------------------------------------------------------------------------
(* Properties of a returned estimate *)

Estimated ==
    /\ pc \in {"estimated", "rendered"}
    /\ results.raised = "none"

\* taxable_base and tax_amount of the data, in cents
BaseCents(d) ==
    MaxOf(CentsOf(d.car_purchase_price) - CentsOf(d.incentives_rebates), 0)

\* amount * local_tax_rate / 100, rounded half-up to cents
TaxCents(amount, d) ==
    IF d.local_tax_rate = None THEN 0
    ELSE HalfUp(amount * d.local_tax_rate.c, 100 * Pow10(d.local_tax_rate.s))

----------------------------------------------------------------------------
(* C5: the residual value *)

Deltas == {Dec(1, 2), Dec(2500000, 2)}

MoreResidual(d, delta) ==
    [d EXCEPT !.residual_value = IF @ = None THEN delta ELSE DAdd(@, delta)]

\* C5: raising residual_value by d > 0, all else fixed, lowers total_cost by
\* exactly d, for every purchase type and also below zero; apart from
\* monthly_cost and the 'Residual credit' entry the result is the same.
C5_ResidualLowersTotalByDelta ==
    (pc = "estimated" /\ results.raised = "none") =>
        \A delta \in Deltas :
            LET more == estimate_car_cost(MoreResidual(data, delta))
            IN /\ more.raised = "none"
               /\ more.total_cost = Dec(results.total_cost.c - Cents(delta), 2)
               /\ \A k \in DOMAIN results \ {"total_cost", "monthly_cost", "breakdown"} :
                     more[k] = results[k]
               /\ \A k \in DOMAIN results.breakdown \ {"Residual credit"} :
                     more.breakdown[k] = results.breakdown[k]

\* an estimate already below zero, which a larger residual lowers further
C5_Witness ==
    /\ pc = "estimated"
    /\ results.raised = "none"
    /\ data.residual_value = Dec(30000, 0)
    /\ data.purchase_type = "lease"
    /\ results.total_cost.c < 0
    /\ estimate_car_cost(MoreResidual(data, Dec(1, 2))).total_cost.c
          = results.total_cost.c - 1

----------------------------------------------------------------------------
(* C6: the final rollup *)

AnnualCents(d, r) ==
    Cents(r.annual_fuel_cost) + Cents(r.annual_electric_cost)
    + CentsOf(d.insurance_cost_annual) + CentsOf(d.maintenance_cost_annual)
    + CentsOf(d.registration_fees_annual) + CentsOf(d.parking_cost_annual)
    + CentsOf(d.other_recurring_costs)

TotalCents(d, r) ==
    Cents(r.breakdown["Acquisition"])
    + HalfUp(AnnualCents(d, r) * d.ownership_period_years.c, 1)
    + CentsOf(d.charging_installation_cost)
    - CentsOf(d.residual_value)

\* C6: total_cost = round(acquisition_total + round(annual_recurring_total *
\* ownership_years) + charging_installation_cost - residual_value), where
\* annual_recurring_total is the sum of the two energy costs and the five
\* annual costs, and monthly_cost = round(total_cost / (ownership_years * 12))
\* when ownership_years > 0; round is half-up to 2 fraction digits.
C6_TotalAndMonthlyCost ==
    Estimated =>
        LET years == data.ownership_period_years.c
        IN /\ results.annual_recurring_total = Dec(AnnualCents(data, results), 2)
           /\ results.total_cost = Dec(TotalCents(data, results), 2)
           /\ years > 0 =>
                 results.monthly_cost
                    = Dec(HalfUp(TotalCents(data, results), years * 12), 2)

\* two years of every recurring cost, and a monthly cost that had to be rounded
C6_Witness ==
    /\ Estimated
    /\ data.ownership_period_years.c = 2
    /\ AnnualCents(data, results) > 0
    /\ Cents(results.annual_fuel_cost) > 0
    /\ results.total_cost.c = TotalCents(data, results)
    /\ results.monthly_cost.c * 24 # results.total_cost.c

----------------------------------------------------------------------------
(* C7: the financed purchase *)

FinanceSchedule(d) ==
    LET base == BaseCents(d)
        principal == MaxOf(base - CentsOf(d.finance_down_payment), 0)
    IN _calculate_finance_schedule(
           Dec(principal + TaxCents(base, d), 2),
           IF d.finance_interest_rate = None THEN Zero ELSE d.finance_interest_rate,
           d.finance_term_months.c)

\* C7: for purchase_type = finance, principal = max(taxable_base -
\* down_payment, 0), the scheduler runs on (principal + tax_amount, rate,
\* term) and the acquisition total is its total_paid plus the whole down
\* payment, also when that exceeds taxable_base; the sub-breakdown holds
\* exactly 'Down payment', 'Financed total' and 'Taxes'.
C7_FinanceAcquisition ==
    (Estimated /\ data.purchase_type = "finance") =>
        LET sched == FinanceSchedule(data)
            down == CentsOf(data.finance_down_payment)
            sub == results.acquisition_breakdown
        IN /\ results.breakdown["Acquisition"] = Dec(Cents(sched.total_paid) + down, 2)
           /\ DOMAIN sub = {"Down payment", "Financed total", "Taxes"}
           /\ Cents(sub["Down payment"]) = down
           /\ Cents(sub["Financed total"]) = Cents(sched.total_paid)
           /\ Cents(sub["Taxes"]) = TaxCents(BaseCents(data), data)

\* a down payment above the taxable base, and a loan of the tax alone
C7_Witness ==
    /\ Estimated
    /\ data.purchase_type = "finance"
    /\ CentsOf(data.finance_down_payment) > BaseCents(data)
    /\ data.finance_term_months.c > 0
    /\ Cents(results.acquisition_breakdown["Financed total"]) > 0
    /\ Cents(results.breakdown["Acquisition"])
          = Cents(results.acquisition_breakdown["Financed total"])
            + CentsOf(data.finance_down_payment)

----------------------------------------------------------------------------
(* C8: the lease *)

LeaseCents(d) ==
    CentsOf(d.lease_monthly_payment) * d.lease_term_months.c
    + CentsOf(d.lease_drive_off_cost)

ExampleLease(d) ==
    /\ d.purchase_type = "lease"
    /\ d.lease_monthly_payment = Dec(300, 0)
    /\ d.lease_term_months = Dec(36, 0)
    /\ d.lease_drive_off_cost = Dec(1000, 0)
    /\ d.local_tax_rate = Zero

\* C8: for purchase_type = lease, lease_total = monthly_payment * term +
\* drive_off, tax_on_lease = round(lease_total * tax_rate_percent / 100) and
\* the acquisition total is their sum, whatever the purchase price and the
\* incentives are; 300 a month for 36 months with 1000 drive-off at 0% tax
\* gives 11800.00, 0.00 and 11800.00.
C8_LeaseAcquisition ==
    (Estimated /\ data.purchase_type = "lease") =>
        LET lease_total == LeaseCents(data)
            tax_on_lease == TaxCents(lease_total, data)
            sub == results.acquisition_breakdown
        IN /\ results.breakdown["Acquisition"] = Dec(lease_total + tax_on_lease, 2)
           /\ Cents(sub["Lease payments"]) + Cents(sub["Drive-off"]) = lease_total
           /\ sub["Lease taxes"] = Dec(tax_on_lease, 2)
           /\ \A price \in {None, Dec(777, 0)}, inc \in {None, Dec(70, 0)} :
                 LET other == estimate_car_cost(
                                  [data EXCEPT !.car_purchase_price = price,
                                               !.incentives_rebates = inc])
                 IN /\ other.breakdown["Acquisition"] = results.breakdown["Acquisition"]
                    /\ other.acquisition_breakdown = sub
           /\ ExampleLease(data) =>
                 /\ lease_total = 1180000
                 /\ sub["Lease taxes"] = Dec(0, 2)
                 /\ results.breakdown["Acquisition"] = Dec(1180000, 2)

C8_Witness ==
    /\ Estimated
    /\ ExampleLease(data)
    /\ data.car_purchase_price = Dec(20000, 0)
    /\ results.breakdown["Acquisition"] = Dec(1180000, 2)

----------------------------------------------------------------------------
(* C9: cash, and a purchase type that is none of the three *)

ExampleCash(d) ==
    /\ d.purchase_type = "cash"
    /\ d.car_purchase_price = Dec(20000, 0)
    /\ d.incentives_rebates = Zero
    /\ d.local_tax_rate = Dec(10, 0)
    /\ d.ownership_period_years = Dec(1, 0)
    /\ d.residual_value = None
    /\ d.insurance_cost_annual = None

\* C9: for purchase_type = cash and for any value that is not cash, finance
\* or lease, the acquisition total is taxable_base + tax_amount under the
\* only key 'Upfront payment', with taxable_base = max(purchase_price -
\* incentives, 0) and tax_amount = round(taxable_base * tax_rate_percent /
\* 100); price 20000, no incentives, 10% tax, nothing recurring and one year
\* give an acquisition total and a total_cost of 22000.00.
C9_CashAcquisition ==
    (Estimated /\ data.purchase_type \notin {"finance", "lease"}) =>
        LET taxable_base == BaseCents(data)
            tax_amount == TaxCents(taxable_base, data)
            sub == results.acquisition_breakdown
        IN /\ taxable_base >= 0
           /\ results.breakdown["Acquisition"] = Dec(taxable_base + tax_amount, 2)
           /\ DOMAIN sub = {"Upfront payment"}
           /\ Cents(sub["Upfront payment"]) = taxable_base + tax_amount
           /\ ExampleCash(data) =>
                 /\ tax_amount = 200000
                 /\ results.breakdown["Acquisition"] = Dec(2200000, 2)
                 /\ results.total_cost = Dec(2200000, 2)

C9_Witness ==
    /\ Estimated
    /\ ExampleCash(data)
    /\ results.total_cost = Dec(2200000, 2)

\* incentives above the price, under a purchase type that is none of the three
C9_WitnessFallback ==
    /\ Estimated
    /\ data.purchase_type = "barter"
    /\ CentsOf(data.incentives_rebates) > CentsOf(data.car_purchase_price)
    /\ results.breakdown["Acquisition"] = Dec(0, 2)

----------------------------------------------------------------------------
(* C10: the two energy channels *)

\* the annual cost of a channel, in cents
EnergyCents(km, consumption, price) ==
    IF consumption = None \/ price = None THEN 0
    ELSE IF consumption.c = 0 \/ price.c = 0 THEN 0
    ELSE HalfUp(km.c * consumption.c * price.c, Pow10(consumption.s + price.s))

\* C10: for each energy channel on its own the annual cost is zero when the
\* consumption or the price of the channel is zero or absent, whatever
\* fuel_type is, and otherwise round((annual_distance / 100) * consumption *
\* price), half-up to 2 fraction digits.
C10_EnergyChannels ==
    Estimated =>
        /\ Cents(results.annual_fuel_cost)
              = EnergyCents(data.annual_mileage,
                            data.fuel_consumption_per_100km,
                            data.gas_price_per_liter)
        /\ Cents(results.annual_electric_cost)
              = EnergyCents(data.annual_mileage,
                            data.electricity_consumption_per_100km,
                            data.electricity_price_per_kwh)

\* a gasoline car with a fuel consumption but no fuel price, and an
\* electric cost that had to be rounded
C10_Witness ==
    /\ Estimated
    /\ data.fuel_type = "gasoline"
    /\ Truthy(data.fuel_consumption_per_100km)
    /\ data.gas_price_per_liter = None
    /\ Cents(results.annual_fuel_cost) = 0
    /\ Cents(results.annual_electric_cost) = 278
    /\ data.annual_mileage.c * data.electricity_consumption_per_100km.c
          * data.electricity_price_per_kwh.c = 277650000

----------------------------------------------------------------------------
(* C11: the breakdown of the result *)

\* the five annual costs of the breakdown, and the input each one comes from
RecurringEntries ==
    ("Insurance" :> "insurance_cost_annual")
    @@ ("Maintenance" :> "maintenance_cost_annual")
    @@ ("Registration" :> "registration_fees_annual")
    @@ ("Parking" :> "parking_cost_annual")
    @@ ("Other recurring" :> "other_recurring_costs")

\* Acquisition + Energy + the five annual entries + Charging - Residual
BreakdownCents(b) ==
    Cents(b["Acquisition"]) + Cents(b["Energy"])
    + Cents(b["Insurance"]) + Cents(b["Maintenance"]) + Cents(b["Registration"])
    + Cents(b["Parking"]) + Cents(b["Other recurring"])
    + Cents(b["Charging infrastructure"]) - Cents(b["Residual credit"])

AnnualEnergyCents(r) == Cents(r.annual_fuel_cost) + Cents(r.annual_electric_cost)

\* C11: in the breakdown 'Energy' is the annual fuel cost plus the annual
\* electric cost, not multiplied by ownership_years; 'Insurance',
\* 'Maintenance', 'Registration', 'Parking' and 'Other recurring' are the
\* annual amounts times ownership_years; 'Charging infrastructure' and
\* 'Residual credit' are the given one-time values; so Acquisition + Energy +
\* the five + Charging - Residual is total_cost exactly when ownership_years
\* is 1 or the annual energy cost is zero.
C11_BreakdownEntries ==
    Estimated =>
        LET years == data.ownership_period_years.c
            b == results.breakdown
        IN /\ b["Energy"] = Dec(AnnualEnergyCents(results), 2)
           /\ \A e \in DOMAIN RecurringEntries :
                 b[e] = Dec(CentsOf(data[RecurringEntries[e]]) * years, 2)
           /\ b["Charging infrastructure"]
                 = Dec(CentsOf(data.charging_installation_cost), 2)
           /\ b["Residual credit"] = Dec(CentsOf(data.residual_value), 2)
           /\ BreakdownCents(b) = Cents(results.total_cost)
                 <=> (years = 1 \/ AnnualEnergyCents(results) = 0)

\* two years of energy: the entries fall short of total_cost by one year of it
C11_Witness ==
    /\ Estimated
    /\ data.ownership_period_years.c = 2
    /\ AnnualEnergyCents(results) > 0
    /\ CentsOf(data.insurance_cost_annual) > 0
    /\ Cents(results.total_cost) - BreakdownCents(results.breakdown)
          = AnnualEnergyCents(results)

----------------------------------------------------------------------------
(* C12: the memo of fetch_currency_for_country *)

\* the last call was a call with this key
Called(key) == call # None /\ call.country_code = key

\* C12 as stated: over any sequence of calls of fetch_currency_for_country
\* in one process, each distinct non-empty country code causes at most one
\* HTTP request: every later call with the same key is answered from the
\* memo, however many other keys were looked up in between.
C12_AtMostOneRequestPerKey ==
    \A key \in Codes \ {""} :
        /\ requests[key] <= 1
        /\ (Called(key) /\ call.before) => ~call.requested

\* C12 amended: a call with a non-empty key makes one HTTP request when the
\* key was never looked up before or when maxsize = 64 or more other
\* distinct keys were looked up since its last lookup, for then the memo
\* has dropped it; it is answered from the memo, without a request, when
\* fewer than 64 other distinct keys were looked up in between.
C12_RefetchOnlyAfterEviction ==
    [][\A key \in Codes \ {""} :
          Called(key)' =>
              requests'[key]
                 = requests[key]
                   + (IF key \in Seen(recency) /\ OthersSince(recency, key) < maxsize
                      THEN 0 ELSE 1)]_vars

\* "US" is answered from the memo after 63 other keys, at its only request
C12_Witness ==
    /\ Called("US")
    /\ call.before
    /\ call.others = maxsize - 1
    /\ ~call.requested
    /\ requests["US"] = 1
    /\ Len(cache) = maxsize

\* "US" is fetched again after 64 other keys
C12_WitnessRefetch ==
    /\ Called("US")
    /\ call.before
    /\ call.others = maxsize
    /\ call.requested
    /\ requests["US"] = 2

----------------------------------------------------------------------------
(* C13: the sum of the acquisition breakdown *)

\* the sum of the entries of a breakdown under these keys, in cents
RECURSIVE SumCents(_, _)
SumCents(sub, keys) ==
    IF keys = {} THEN 0
    ELSE LET key == CHOOSE k \in keys : TRUE
         IN Cents(sub[key]) + SumCents(sub, keys \ {key})

\* what is borrowed: the part of the taxable base the down payment leaves,
\* and the tax
BorrowedCents(d) ==
    MaxOf(BaseCents(d) - CentsOf(d.finance_down_payment), 0)
    + TaxCents(BaseCents(d), d)

\* C13: for cash, lease and any other purchase type but finance the entries
\* of acquisition_breakdown add up to the acquisition total; for finance
\* 'Down payment' + 'Financed total' is the acquisition total and 'Taxes' is
\* tax_amount once more, which the 'Financed total' of a loan with a term
\* above 0 already covers, so the three entries add up to the acquisition
\* total plus tax_amount.
C13_AcquisitionBreakdownSum ==
    Estimated =>
        LET sub == results.acquisition_breakdown
            acquisition_total == Cents(results.breakdown["Acquisition"])
            tax_amount == TaxCents(BaseCents(data), data)
        IN IF data.purchase_type = "finance"
           THEN /\ Cents(sub["Down payment"]) + Cents(sub["Financed total"])
                      = acquisition_total
                /\ Cents(sub["Taxes"]) = tax_amount
                /\ data.finance_term_months.c > 0 =>
                      Cents(sub["Financed total"]) >= BorrowedCents(data)
                /\ SumCents(sub, DOMAIN sub) = acquisition_total + tax_amount
           ELSE SumCents(sub, DOMAIN sub) = acquisition_total

\* a financed purchase whose three entries exceed the acquisition total by the tax
C13_Witness ==
    /\ Estimated
    /\ data.purchase_type = "finance"
    /\ data.finance_term_months.c > 0
    /\ CentsOf(data.finance_down_payment) > 0
    /\ TaxCents(BaseCents(data), data) > 0
    /\ Cents(results.acquisition_breakdown["Financed total"]) >= BorrowedCents(data)
    /\ SumCents(results.acquisition_breakdown, DOMAIN results.acquisition_breakdown)
          = Cents(results.breakdown["Acquisition"]) + TaxCents(BaseCents(data), data)

\* a lease whose three entries are the acquisition total
C13_WitnessLease ==
    /\ Estimated
    /\ data.purchase_type = "lease"
    /\ Cents(results.acquisition_breakdown["Lease taxes"]) > 0
    /\ Cents(results.acquisition_breakdown["Drive-off"]) > 0
    /\ SumCents(results.acquisition_breakdown, DOMAIN results.acquisition_breakdown)
          = Cents(results.breakdown["Acquisition"])

====
